---- MODULE Spec2Model ----
(***************************************************************************)
(* A model of custom_components/qwen_tts/tts.py: the Home Assistant TTS    *)
(* entity QwenTTSEntity, its four request protocols and the timeouts that  *)
(* wrap them.                                                              *)
(*                                                                         *)
(* Strings that the code trims or tests for emptiness are sequences of     *)
(* characters; an optional value (str | None) is <<>> for None and <<s>>   *)
(* for the string s.                                                       *)
(***************************************************************************)
EXTENDS Integers, Sequences, FiniteSets, TLC

VARIABLES entry, entity, timeouts, call

vars == <<entry, entity, timeouts, call>>

----------------------------------------------------------------------------
(* Bounds of the model *)

\* longest voice_id of the configuration record, in characters
MaxLen == 2
\* longest "voices" array of a GET /voices answer
MaxVoices == 2
\* most skipped frames of one receive loop that are counted; the loop may
\* read more
MaxFrames == 2
\* most clock ticks one awaited operation is watched for
MaxTicks == 2

----------------------------------------------------------------------------
(* const.py *)

DOWNLOAD_TIMEOUT_SECONDS == 30
PREVIEW_TIMEOUT_SECONDS == 0

\* one clock tick of the model, in seconds
TickSeconds == DOWNLOAD_TIMEOUT_SECONDS

----------------------------------------------------------------------------
(* Strings and optional values *)

Alphabet == {" ", "a"}

Strings(n) == UNION {[1..k -> Alphabet] : k \in 0..n}

None == <<>>

Some(s) == <<s>>

\* Python truthiness of a str | None value
Truthy(o) == o # None /\ o[1] # <<>>

\* (o or "")
OrEmpty(o) == IF Truthy(o) THEN o[1] ELSE <<>>

RECURSIVE lstrip(_)
lstrip(s) == IF s # <<>> /\ Head(s) = " " THEN lstrip(Tail(s)) ELSE s

RECURSIVE rstrip(_)
rstrip(s) == IF s # <<>> /\ s[Len(s)] = " " THEN rstrip(SubSeq(s, 1, Len(s) - 1)) ELSE s

\* str.strip()
strip(s) == rstrip(lstrip(s))

----------------------------------------------------------------------------
(* The configuration record (entry.data) and the entity built from it *)

\* a base URL: its scheme, its host, its path as text ("" or "/api"), and
\* whether it was stored with a trailing slash
BaseUrls ==
    { [scheme |-> "http", host |-> "tts.local:8000", path |-> <<>>,
       slash |-> FALSE],
      [scheme |-> "https", host |-> "tts.local:8000", path |-> <<"/", "api">>,
       slash |-> TRUE],
      [scheme |-> "ftp", host |-> "tts.local:8000", path |-> <<>>,
       slash |-> FALSE] }

VoiceIdValues == {None} \cup {Some(s) : s \in Strings(MaxLen)}

SessionIdValues == {None, Some(<<>>), Some(<<" ">>), Some(<<"s", "1">>)}

ReferenceUrlValues == {None, Some(<<>>), Some(<<"u">>)}

TranscriptionValues == {None, Some(<<" ">>), Some(<<" ", "h", "i", " ">>)}

Entries(bases, voices, sessions, refs, transcriptions) ==
    [base_url : bases, voice_id : voices, session_id : sessions,
     reference_audio_url : refs, reference_transcription : transcriptions]

\* str.rstrip("/") of a base URL
RstripSlash(u) == [u EXCEPT !.slash = FALSE]

\* QwenTTSEntity.__init__
EntityInit(e) ==
    [base_url |-> RstripSlash(e.base_url),
     voice_id |-> e.voice_id,
     session_id |-> e.session_id,
     reference_audio_url |-> e.reference_audio_url,
     reference_transcription |-> e.reference_transcription]

\* the text of the synthesis request of call c
Message(c) == <<"m", c>>

----------------------------------------------------------------------------
(* One call of async_get_tts_audio *)

NewCall ==
    [pc |-> "start", mode |-> "none", log |-> <<>>, voice_id |-> <<>>,
     session_id |-> <<>>, transcription |-> <<>>, warned |-> FALSE,
     audio_url |-> <<>>, deadline |-> 0, ticks |-> 0, nframes |-> 0,
     result |-> "none", exc |-> "none", msg |-> "none", status |-> 0]

\* a request: its method, the endpoint it is for, its URL and what it carries
Req(op, endpoint, url, form) ==
    [t |-> "req", op |-> op, endpoint |-> endpoint, url |-> url, form |-> form]

Ev(kind, status, body) == [t |-> "ev", kind |-> kind, status |-> status, body |-> body]

\* urljoin(f"{base_url.rstrip('/')}/", path)
Url(base, path) == [base |-> RstripSlash(base), path |-> path]

\* MaybeTimeoutArmed taking zero for a deadline too
MaybeTimeoutArmedAtZero(seconds) == seconds >= 0

\* _maybe_timeout: whether a deadline of `seconds` is set at all
MaybeTimeoutArmed(seconds) == seconds # 0 /\ seconds > 0

\* the time the call has spent in the enclosing _maybe_timeout
Elapsed(k) == k.ticks * TickSeconds

\* the deadline of the enclosing _maybe_timeout has passed
DeadlinePassed(k) == MaybeTimeoutArmed(k.deadline) /\ Elapsed(k) >= k.deadline

\* raise exc(msg): the call ends
Raise(k, exc, msg, status) ==
    [k EXCEPT !.pc = "done", !.result = "error", !.exc = exc, !.msg = msg,
              !.status = status]

\* return "wav", audio_bytes
ReturnWav(k) == [k EXCEPT !.pc = "done", !.result = "ok"]

\* what the call received is appended to its log
Received(k, ev) == [k EXCEPT !.log = Append(k.log, ev)]

\* enter `async with _maybe_timeout(seconds)` and issue a request
Await(k, pc, seconds, req) ==
    [k EXCEPT !.pc = pc, !.deadline = seconds, !.ticks = 0,
              !.log = Append(k.log, req)]

\* ResolveMode with the session_id test moved before the voice_id test
ResolveModeSessionFirst(e) ==
    IF Truthy(e.session_id) THEN "EstablishedSession"
    ELSE IF strip(OrEmpty(e.voice_id)) # <<>> THEN "SavedVoice"
    ELSE IF Truthy(e.reference_audio_url) THEN "AdHocReference"
    ELSE "AutoSelect"

\* ResolveMode with the reference_audio_url test moved before the session_id test
ResolveModeReferenceFirst(e) ==
    IF strip(OrEmpty(e.voice_id)) # <<>> THEN "SavedVoice"
    ELSE IF Truthy(e.reference_audio_url) THEN "AdHocReference"
    ELSE IF Truthy(e.session_id) THEN "EstablishedSession"
    ELSE "AutoSelect"

\* the priority order of async_get_tts_audio
ResolveMode(e) ==
    IF strip(OrEmpty(e.voice_id)) # <<>> THEN "SavedVoice"
    ELSE IF Truthy(e.session_id) THEN "EstablishedSession"
    ELSE IF Truthy(e.reference_audio_url) THEN "AdHocReference"
    ELSE "AutoSelect"

\* _async_generate_preview_saved_voice, up to the POST
PostSavedVoice(k, c, voice_id) ==
    Await([k EXCEPT !.voice_id = voice_id], "await_saved_voice",
          timeouts.preview,
          Req("POST", "preview-from-voice",
              Url(entity.base_url, "preview-from-voice"),
              [voice_id |-> voice_id, response_text |-> Message(c)]))

\* the scheme mapping of _ws_url_from_http
WsScheme(scheme) ==
    CASE scheme = "https" -> "wss"
      [] scheme = "http" -> "ws"
      [] OTHER -> "invalid"

\* _ws_url_from_http(base_url, "/ws")
WsUrlFromHttp(base, path) ==
    [base |-> [RstripSlash(base) EXCEPT !.scheme = WsScheme(base.scheme)],
     path |-> path]

\* _async_generate_preview, up to ws_connect
GeneratePreview(k, c, session_id) ==
    IF WsScheme(entity.base_url.scheme) = "invalid"
    THEN Raise(k, "HomeAssistantError", "Invalid base URL scheme", 0)
    ELSE Await([k EXCEPT !.session_id = session_id], "ws_connect",
               timeouts.preview,
               Req("WS_CONNECT", "ws", WsUrlFromHttp(entity.base_url, "ws"),
                   [heartbeat |-> 30]))

\* _async_download_reference_audio, up to the GET
DownloadReferenceAudio(k) ==
    IF ~Truthy(entity.reference_audio_url)
    THEN Raise(k, "HomeAssistantError",
               "No session_id configured and no reference_audio_url available.", 0)
    ELSE Await(k, "await_reference", timeouts.download,
               Req("GET", "reference_audio_url", entity.reference_audio_url[1], <<>>))

\* GeneratePreviewHttp taking the transcription as it is configured
GeneratePreviewHttpNoStrip(k) ==
    LET transcription == OrEmpty(entity.reference_transcription)
    IN DownloadReferenceAudio(
           [k EXCEPT !.transcription = transcription,
                     !.warned = (transcription = <<>>)])

\* _async_generate_preview_http, up to the download of the reference audio
GeneratePreviewHttp(k) ==
    LET transcription == strip(OrEmpty(entity.reference_transcription))
    IN DownloadReferenceAudio(
           [k EXCEPT !.transcription = transcription,
                     !.warned = (transcription = <<>>)])

\* _async_get_default_voice_id, up to the GET
GetDefaultVoiceId(k) ==
    Await(k, "await_voices", timeouts.download,
          Req("GET", "voices", Url(entity.base_url, "voices"), <<>>))

\* async_get_tts_audio, up to its first suspension point
Dispatch(c) ==
    /\ call[c].pc = "start"
    /\ LET mode == ResolveMode(entity)
           k == [call[c] EXCEPT !.mode = mode]
       IN call' = [call EXCEPT ![c] =
              CASE mode = "SavedVoice" ->
                     PostSavedVoice(k, c, strip(OrEmpty(entity.voice_id)))
                [] mode = "EstablishedSession" ->
                     GeneratePreview(k, c, entity.session_id[1])
                [] mode = "AdHocReference" -> GeneratePreviewHttp(k)
                [] OTHER -> GetDefaultVoiceId(k)]
    /\ UNCHANGED <<entry, entity, timeouts>>

----------------------------------------------------------------------------
(* HTTP answers *)

Statuses == {200, 404, 500}

\* SavedVoiceAnswer without the branch for 404
SavedVoiceAnswerNo404(k, status) ==
    LET r == Received(k, Ev("response", status, <<>>))
    IN IF status # 200
       THEN Raise(r, "HomeAssistantError", "Preview-from-voice failed", status)
       ELSE ReturnWav(r)

\* the answer to POST /preview-from-voice
SavedVoiceAnswer(k, status) ==
    LET r == Received(k, Ev("response", status, <<>>))
    IN IF status = 404
       THEN Raise(r, "HomeAssistantError", "Saved voice not found", status)
       ELSE IF status # 200
       THEN Raise(r, "HomeAssistantError", "Preview-from-voice failed", status)
       ELSE ReturnWav(r)

SavedVoiceResponse(c) ==
    /\ call[c].pc = "await_saved_voice"
    /\ ~DeadlinePassed(call[c])
    /\ \E status \in Statuses :
           call' = [call EXCEPT ![c] = SavedVoiceAnswer(call[c], status)]
    /\ UNCHANGED <<entry, entity, timeouts>>

----------------------------------------------------------------------------
(* GET /voices: the JSON answers and the choice of a default voice *)

\* one element of the "voices" array: whether it is an object, and what
\* item.get("voice_id") gives (nothing, a non-string, or a string)
VoiceIdStrings == {<<>>, <<" ">>, <<"a">>, <<" ", "b", " ">>}

VoiceItems ==
    {[isdict |-> FALSE, ty |-> "none", s |-> <<>>],
     [isdict |-> TRUE, ty |-> "none", s |-> <<>>],
     [isdict |-> TRUE, ty |-> "int", s |-> <<>>]}
    \cup {[isdict |-> TRUE, ty |-> "str", s |-> x] : x \in VoiceIdStrings}

VoiceLists(n) == UNION {[1..k -> VoiceItems] : k \in 0..n}

\* the body of the answer: not JSON at all, JSON that is no object, an object
\* with no "voices", one whose "voices" is no array, or one with an array
VoicesPayloads(n) ==
    {[shape |-> sh, voices |-> <<>>] :
        sh \in {"invalid", "nonobject", "novoices", "voices_not_list"}}
    \cup {[shape |-> "list", voices |-> v] : v \in VoiceLists(n)}

\* UsableVoiceId without the test that the stripped id is non-empty
UsableVoiceIdAnyString(item) == item.isdict /\ item.ty = "str"

\* isinstance(vid, str) and vid.strip()
UsableVoiceId(item) == item.isdict /\ item.ty = "str" /\ strip(item.s) # <<>>

\* FirstUsableVoiceId going on to the last usable item instead of returning
\* at the first
RECURSIVE LastUsableVoiceId(_)
LastUsableVoiceId(voices) ==
    IF voices = <<>> THEN None
    ELSE IF LastUsableVoiceId(Tail(voices)) # None
    THEN LastUsableVoiceId(Tail(voices))
    ELSE IF UsableVoiceId(Head(voices)) THEN Some(strip(Head(voices).s))
    ELSE None

\* FirstUsableVoiceId returning the id of the first usable item as it is listed
RECURSIVE FirstUsableVoiceIdAsListed(_)
FirstUsableVoiceIdAsListed(voices) ==
    IF voices = <<>> THEN None
    ELSE IF UsableVoiceId(Head(voices)) THEN Some(Head(voices).s)
    ELSE FirstUsableVoiceIdAsListed(Tail(voices))

\* the for loop of _async_get_default_voice_id: the stripped id of the first
\* usable item, or None when the loop falls through
RECURSIVE FirstUsableVoiceId(_)
FirstUsableVoiceId(voices) ==
    IF voices = <<>> THEN None
    ELSE IF UsableVoiceId(Head(voices)) THEN Some(strip(Head(voices).s))
    ELSE FirstUsableVoiceId(Tail(voices))

\* _async_get_default_voice_id from the answer on, then the saved-voice POST
VoicesAnswer(k, c, status, payload) ==
    LET r == Received(k, Ev("response", status, payload))
    IN IF status # 200
       THEN Raise(r, "HomeAssistantError", "Unable to list saved voices", status)
       ELSE IF payload.shape = "invalid"
       THEN Raise(r, "JSONDecodeError", "none", 0)
       ELSE IF payload.shape # "list" \/ payload.voices = <<>>
       THEN Raise(r, "HomeAssistantError", "No saved voices found on server", 0)
       ELSE IF FirstUsableVoiceId(payload.voices) = None
       THEN Raise(r, "HomeAssistantError",
                  "Saved voices list did not include a usable voice_id.", 0)
       ELSE PostSavedVoice(r, c, FirstUsableVoiceId(payload.voices)[1])

VoicesResponse(c, payloads) ==
    /\ call[c].pc = "await_voices"
    /\ ~DeadlinePassed(call[c])
    /\ \E status \in Statuses, payload \in payloads :
           /\ status # 200 => payload.shape = "invalid"
           /\ call' = [call EXCEPT ![c] = VoicesAnswer(call[c], c, status, payload)]
    /\ UNCHANGED <<entry, entity, timeouts>>

----------------------------------------------------------------------------
(* The ad-hoc reference protocol *)

ContentTypes == {None, Some(""), Some("audio/mpeg")}

\* resp.headers.get("Content-Type") or "audio/wav"
ContentTypeOrDefault(h) == IF h = None \/ h[1] = "" THEN "audio/wav" ELSE h[1]

\* _async_download_reference_audio from the answer on, then the POST of
\* _async_generate_preview_http
ReferenceAnswer(k, c, status, header) ==
    LET r == Received(k, Ev("response", status, header))
    IN IF status # 200
       THEN Raise(r, "HomeAssistantError", "Failed to download reference audio", status)
       ELSE Await(r, "await_preview", timeouts.preview,
                  Req("POST", "preview", Url(entity.base_url, "preview"),
                      [audio |-> [bytes |-> "reference", filename |-> "reference.wav",
                                  content_type |-> ContentTypeOrDefault(header)],
                       transcription |-> r.transcription,
                       response_text |-> Message(c)]))

\* ReferenceResponse storing a session for the downloaded reference on the
\* entity, for later calls to use
ReferenceResponsePromotes(c) ==
    /\ call[c].pc = "await_reference"
    /\ ~DeadlinePassed(call[c])
    /\ \E status \in Statuses, header \in ContentTypes :
           /\ status # 200 => header = None
           /\ call' = [call EXCEPT ![c] = ReferenceAnswer(call[c], c, status, header)]
           /\ entity' = IF status = 200
                        THEN [entity EXCEPT !.session_id = Some(<<"s", "2">>)]
                        ELSE entity
    /\ UNCHANGED <<entry, timeouts>>

ReferenceResponse(c) ==
    /\ call[c].pc = "await_reference"
    /\ ~DeadlinePassed(call[c])
    /\ \E status \in Statuses, header \in ContentTypes :
           /\ status # 200 => header = None
           /\ call' = [call EXCEPT ![c] = ReferenceAnswer(call[c], c, status, header)]
    /\ UNCHANGED <<entry, entity, timeouts>>

\* the answer to POST /preview
PreviewAnswer(k, status) ==
    LET r == Received(k, Ev("response", status, <<>>))
    IN IF status # 200
       THEN Raise(r, "HomeAssistantError", "Preview failed", status)
       ELSE ReturnWav(r)

PreviewResponse(c) ==
    /\ call[c].pc = "await_preview"
    /\ ~DeadlinePassed(call[c])
    /\ \E status \in Statuses :
           call' = [call EXCEPT ![c] = PreviewAnswer(call[c], status)]
    /\ UNCHANGED <<entry, entity, timeouts>>

----------------------------------------------------------------------------
(* The message protocol of an established session *)

\* data.audio_url of a completion frame, as text cut into pieces: "",
\* "/files/a.wav", "files/a.wav", "http://cdn.local/a.wav" and
\* "https://cdn.local/a.wav"
AudioUrls ==
    {<<>>,
     <<"/", "files/a.wav">>,
     <<"files/a.wav">>,
     <<"http", "://", "cdn.local", "/", "a.wav">>,
     <<"https", "://", "cdn.local", "/", "a.wav">>}

NoUrl == <<>>

\* the text of a base URL, cut into the same pieces
UrlText(b) ==
    <<b.scheme, "://", b.host>> \o b.path \o (IF b.slash THEN <<"/">> ELSE <<>>)

\* str.startswith
StartsWith(s, prefix) ==
    Len(s) >= Len(prefix) /\ SubSeq(s, 1, Len(prefix)) = prefix

\* str.lstrip("/")
RECURSIVE LstripSlash(_)
LstripSlash(s) == IF s # <<>> /\ Head(s) = "/" THEN LstripSlash(Tail(s)) ELSE s

\* urllib.parse.urljoin of a base text that ends with "/" and a reference: a
\* reference with a scheme is the result, one that starts with "/" replaces
\* the path of the base, any other is appended to the base
UrlJoin(base, ref) ==
    IF Len(ref) >= 2 /\ ref[2] = "://" THEN ref
    ELSE IF ref # <<>> /\ Head(ref) = "/" THEN SubSeq(base, 1, 3) \o ref
    ELSE base \o ref

Frame(type, json, mtype, data, ty, url) ==
    [type |-> type, json |-> json, mtype |-> mtype, data |-> data,
     ty |-> ty, audio_url |-> url]

\* a message of ws.receive(): its WSMsgType and, for a TEXT message, what
\* json.loads gives: json is "malformed", "nonobject" or "object"; mtype is
\* parsed.get("type"); data is parsed.get("data") (missing, an empty value, a
\* non-empty value that is no object, or an object); ty and audio_url are
\* data.get("audio_url")
Frames ==
    {Frame(t, "none", "none", "none", "none", NoUrl) :
        t \in {"BINARY", "CLOSE", "CLOSED", "ERROR"}}
    \cup {Frame("TEXT", j, "none", "none", "none", NoUrl) :
            j \in {"malformed", "nonobject"}}
    \cup {Frame("TEXT", "object", m, "none", "none", NoUrl) :
            m \in {"status", "error"}}
    \cup {Frame("TEXT", "object", "tts_complete", d, "none", NoUrl) :
            d \in {"missing", "empty", "nondict"}}
    \cup {Frame("TEXT", "object", "tts_complete", "dict", ty, NoUrl) :
            ty \in {"none", "int"}}
    \cup {Frame("TEXT", "object", "tts_complete", "dict", "str", u) :
            u \in AudioUrls}

\* DownloadAudio joining the audio_url as it came, leading "/" included
DownloadAudioNoLstrip(k, audio_url) ==
    LET absolute ==
            IF ~StartsWith(audio_url, <<"http", "://">>)
               /\ ~StartsWith(audio_url, <<"https", "://">>)
            THEN UrlJoin(UrlText(RstripSlash(entity.base_url)) \o <<"/">>,
                         audio_url)
            ELSE audio_url
    IN Await([k EXCEPT !.audio_url = audio_url], "await_audio",
             timeouts.download, Req("GET", "audio_url", absolute, <<>>))

\* _async_download_audio, up to the GET
DownloadAudio(k, audio_url) ==
    LET absolute ==
            IF ~StartsWith(audio_url, <<"http", "://">>)
               /\ ~StartsWith(audio_url, <<"https", "://">>)
            THEN UrlJoin(UrlText(RstripSlash(entity.base_url)) \o <<"/">>,
                         LstripSlash(audio_url))
            ELSE audio_url
    IN Await([k EXCEPT !.audio_url = audio_url], "await_audio",
             timeouts.download, Req("GET", "audio_url", absolute, <<>>))

\* Continue giving every read of a frame a deadline of its own
ContinueResetsDeadline(k) ==
    [k EXCEPT !.nframes = IF k.nframes < MaxFrames THEN k.nframes + 1 ELSE k.nframes,
              !.ticks = 0]

\* the frame is skipped and the loop reads the next one, under the deadline
\* it was entered with; skipped frames are counted up to MaxFrames
Continue(k) ==
    [k EXCEPT !.nframes = IF k.nframes < MaxFrames THEN k.nframes + 1 ELSE k.nframes]

\* HandleFrame reporting a closed or failed connection as a timeout
HandleFrameCloseAsTimeout(k, f) ==
    LET r == Received(k, Ev("frame", 0, f))
    IN IF f.type = "TEXT"
       THEN IF f.json = "malformed" THEN Continue(k)
            ELSE IF f.json = "nonobject" THEN Raise(r, "AttributeError", "none", 0)
            ELSE IF f.mtype = "tts_complete"
            THEN IF f.data = "nondict" THEN Raise(r, "AttributeError", "none", 0)
                 ELSE IF f.data # "dict" \/ f.ty # "str" \/ f.audio_url = NoUrl
                 THEN Raise(r, "HomeAssistantError", "tts_complete missing audio_url", 0)
                 ELSE DownloadAudio(r, f.audio_url)
            ELSE IF f.mtype = "error"
            THEN Raise(r, "HomeAssistantError", "Backend error", 0)
            ELSE Continue(k)
       ELSE IF f.type \in {"CLOSE", "CLOSED", "ERROR"}
       THEN Raise(r, "HomeAssistantError", "Timed out waiting for TTS audio", 0)
       ELSE Continue(k)

\* one turn of the receive loop of _async_generate_preview; on a completion
\* frame async_get_tts_audio goes on to _async_download_audio
HandleFrame(k, f) ==
    LET r == Received(k, Ev("frame", 0, f))
    IN IF f.type = "TEXT"
       THEN IF f.json = "malformed" THEN Continue(k)
            ELSE IF f.json = "nonobject" THEN Raise(r, "AttributeError", "none", 0)
            ELSE IF f.mtype = "tts_complete"
            THEN IF f.data = "nondict" THEN Raise(r, "AttributeError", "none", 0)
                 ELSE IF f.data # "dict" \/ f.ty # "str" \/ f.audio_url = NoUrl
                 THEN Raise(r, "HomeAssistantError", "tts_complete missing audio_url", 0)
                 ELSE DownloadAudio(r, f.audio_url)
            ELSE IF f.mtype = "error"
            THEN Raise(r, "HomeAssistantError", "Backend error", 0)
            ELSE Continue(k)
       ELSE IF f.type \in {"CLOSE", "CLOSED"}
       THEN Raise(r, "HomeAssistantError", "WebSocket closed before completion", 0)
       ELSE IF f.type = "ERROR"
       THEN Raise(r, "HomeAssistantError", "WebSocket error", 0)
       ELSE Continue(k)

\* whether the loop goes on after the frame
Ignorable(f) == HandleFrame(NewCall, f).pc = "start"

\* WsConnected entering the loop without send_json
WsConnectedNoSend(c) ==
    /\ call[c].pc = "ws_connect"
    /\ ~DeadlinePassed(call[c])
    /\ call' = [call EXCEPT ![c] =
           [call[c] EXCEPT
               !.pc = "ws_recv",
               !.log = call[c].log \o <<Ev("connected", 0, <<>>)>>]]
    /\ UNCHANGED <<entry, entity, timeouts>>

\* session.ws_connect succeeded: send_json, then the loop starts
WsConnected(c) ==
    /\ call[c].pc = "ws_connect"
    /\ ~DeadlinePassed(call[c])
    /\ call' = [call EXCEPT ![c] =
           [call[c] EXCEPT
               !.pc = "ws_recv",
               !.log = call[c].log \o
                   <<Ev("connected", 0, <<>>),
                     Req("WS_SEND", "ws", WsUrlFromHttp(entity.base_url, "ws"),
                         [type |-> "generate_preview",
                          data |-> [session_id |-> call[c].session_id,
                                    text |-> Message(c)]])>>]]
    /\ UNCHANGED <<entry, entity, timeouts>>

\* msg = await ws.receive(timeout=None)
WsReceive(c) ==
    /\ call[c].pc = "ws_recv"
    /\ ~DeadlinePassed(call[c])
    /\ \E f \in Frames :
           call' = [call EXCEPT ![c] = HandleFrame(call[c], f)]
    /\ UNCHANGED <<entry, entity, timeouts>>

\* AudioAnswer asking for the audio again after a failed download
AudioAnswerRetries(k, status) ==
    LET r == Received(k, Ev("response", status, <<>>))
    IN IF status # 200
       THEN Await(r, "await_audio", timeouts.download,
                  Req("GET", "audio_url", k.log[Len(k.log)].url, <<>>))
       ELSE ReturnWav(r)

\* the answer to the GET of _async_download_audio
AudioAnswer(k, status) ==
    LET r == Received(k, Ev("response", status, <<>>))
    IN IF status # 200
       THEN Raise(r, "HomeAssistantError", "Audio download failed", status)
       ELSE ReturnWav(r)

AudioResponse(c) ==
    /\ call[c].pc = "await_audio"
    /\ ~DeadlinePassed(call[c])
    /\ \E status \in Statuses :
           call' = [call EXCEPT ![c] = AudioAnswer(call[c], status)]
    /\ UNCHANGED <<entry, entity, timeouts>>

----------------------------------------------------------------------------
(* Time, deadlines and transport failures *)

HttpAwaitPcs == {"await_saved_voice", "await_voices", "await_reference",
                 "await_preview", "await_audio"}

WsAwaitPcs == {"ws_connect", "ws_recv"}

AwaitPcs == HttpAwaitPcs \cup WsAwaitPcs

\* time passes while the call is suspended
Tick(c) ==
    /\ call[c].pc \in AwaitPcs
    /\ call[c].ticks < MaxTicks
    /\ ~DeadlinePassed(call[c])
    /\ call' = [call EXCEPT ![c].ticks = @ + 1]
    /\ UNCHANGED <<entry, entity, timeouts>>

\* what a TimeoutError raised at the suspension point becomes: only
\* _async_generate_preview catches it
TimedOut(k) ==
    LET r == Received(k, Ev("timeout", 0, <<>>))
    IN IF k.pc \in WsAwaitPcs
       THEN Raise(r, "HomeAssistantError", "Timed out waiting for TTS audio", 0)
       ELSE Raise(r, "TimeoutError", "none", 0)

Timeout(c) ==
    /\ call[c].pc \in AwaitPcs
    /\ DeadlinePassed(call[c])
    /\ call' = [call EXCEPT ![c] = TimedOut(call[c])]
    /\ UNCHANGED <<entry, entity, timeouts>>

\* the connection cannot be made or breaks: aiohttp raises a ClientError,
\* which nothing in tts.py catches
TransportError(c) ==
    /\ call[c].pc \in HttpAwaitPcs \cup {"ws_connect"}
    /\ ~DeadlinePassed(call[c])
    /\ call' = [call EXCEPT ![c] =
           Raise(Received(call[c], Ev("transport_error", 0, <<>>)),
                 "ClientError", "none", 0)]
    /\ UNCHANGED <<entry, entity, timeouts>>

----------------------------------------------------------------------------
(* Specifications *)

ConstTimeouts ==
    [preview |-> PREVIEW_TIMEOUT_SECONDS, download |-> DOWNLOAD_TIMEOUT_SECONDS]

\* one call at a time, on any configuration record
Init ==
    /\ entry \in Entries(BaseUrls, VoiceIdValues, SessionIdValues,
                         ReferenceUrlValues, TranscriptionValues)
    /\ entity = EntityInit(entry)
    /\ timeouts = ConstTimeouts
    /\ call = [c \in {1} |-> NewCall]

Next ==
    \/ \E c \in DOMAIN call : Dispatch(c)
    \/ \E c \in DOMAIN call : SavedVoiceResponse(c)
    \/ \E c \in DOMAIN call : VoicesResponse(c, VoicesPayloads(MaxVoices))
    \/ \E c \in DOMAIN call : ReferenceResponse(c)
    \/ \E c \in DOMAIN call : PreviewResponse(c)
    \/ \E c \in DOMAIN call : WsConnected(c)
    \/ \E c \in DOMAIN call : WsReceive(c)
    \/ \E c \in DOMAIN call : AudioResponse(c)
    \/ \E c \in DOMAIN call : Tick(c)
    \/ \E c \in DOMAIN call : Timeout(c)
    \/ \E c \in DOMAIN call : TransportError(c)

Spec == Init /\ [][Next]_vars

\* one configuration record for each mode, with a usable and an unusable base URL
ModeEntries ==
    Entries({b \in BaseUrls : b.scheme # "https"},
            {None, Some(<<" ", "a">>)}, {None, Some(<<"s", "1">>)},
            {None, Some(<<"u">>)}, {None})

\* the values const.py may give a timeout: unset or odd ones, and a positive one
TimeoutValues == {-1, 0, DOWNLOAD_TIMEOUT_SECONDS}

\* one call at a time, under every setting of the two timeouts of const.py
InitTimeouts ==
    /\ entry \in ModeEntries
    /\ entity = EntityInit(entry)
    /\ timeouts \in [preview : TimeoutValues, download : TimeoutValues]
    /\ call = [c \in {1} |-> NewCall]

SpecTimeouts == InitTimeouts /\ [][Next]_vars

\* positive timeouts of one and of two clock ticks
PositiveTimeouts == {TickSeconds, 2 * TickSeconds}

\* one call at a time under a positive preview timeout
InitLive ==
    /\ entry \in {e \in ModeEntries : e.base_url.scheme = "http"}
    /\ entity = EntityInit(entry)
    /\ timeouts \in [preview : PositiveTimeouts,
                     download : {0, DOWNLOAD_TIMEOUT_SECONDS}]
    /\ call = [c \in {1} |-> NewCall]

\* the clock goes on while a call is suspended, and asyncio.timeout cancels
\* the call once its deadline has passed
Fairness == WF_vars(Tick(1)) /\ WF_vars(Timeout(1))

SpecLive == InitLive /\ [][Next]_vars /\ Fairness

\* two calls of the same entity, suspended and resumed in any order
InitConcurrent ==
    /\ entry \in {e \in ModeEntries : e.base_url.scheme = "http"}
    /\ entity = EntityInit(entry)
    /\ timeouts = ConstTimeouts
    /\ call = [c \in {1, 2} |-> NewCall]

NextConcurrent ==
    \/ \E c \in DOMAIN call : Dispatch(c)
    \/ \E c \in DOMAIN call : SavedVoiceResponse(c)
    \/ \E c \in DOMAIN call : VoicesResponse(c, VoicesPayloads(1))
    \/ \E c \in DOMAIN call : ReferenceResponse(c)
    \/ \E c \in DOMAIN call : PreviewResponse(c)
    \/ \E c \in DOMAIN call : WsConnected(c)
    \/ \E c \in DOMAIN call : WsReceive(c)
    \/ \E c \in DOMAIN call : AudioResponse(c)
    \/ \E c \in DOMAIN call : Tick(c)
    \/ \E c \in DOMAIN call : Timeout(c)
    \/ \E c \in DOMAIN call : TransportError(c)

SpecConcurrent == InitConcurrent /\ [][NextConcurrent]_vars

\* the session_id of the configuration record is changed after the entity
\* was built; the entity has no listener for it and keeps the fields that
\* __init__ copied
UpdateEntry ==
    /\ \E v \in {None, Some(<<"s", "1">>)} :
           /\ v # entry.session_id
           /\ entry' = [entry EXCEPT !.session_id = v]
    /\ UNCHANGED <<entity, timeouts, call>>

\* two calls of one entity whose configuration record may change between them
InitReconfigure ==
    /\ entry \in {e \in ModeEntries :
                     e.base_url.scheme = "http" /\ e.voice_id = None}
    /\ entity = EntityInit(entry)
    /\ timeouts = ConstTimeouts
    /\ call = [c \in {1, 2} |-> NewCall]

NextReconfigure ==
    \/ UpdateEntry
    \/ \E c \in DOMAIN call : Dispatch(c)
    \/ \E c \in DOMAIN call : SavedVoiceResponse(c)
    \/ \E c \in DOMAIN call : VoicesResponse(c, VoicesPayloads(1))
    \/ \E c \in DOMAIN call : ReferenceResponse(c)
    \/ \E c \in DOMAIN call : PreviewResponse(c)
    \/ \E c \in DOMAIN call : WsConnected(c)
    \/ \E c \in DOMAIN call : WsReceive(c)
    \/ \E c \in DOMAIN call : AudioResponse(c)
    \/ \E c \in DOMAIN call : Tick(c)
    \/ \E c \in DOMAIN call : Timeout(c)
    \/ \E c \in DOMAIN call : TransportError(c)

SpecReconfigure == InitReconfigure /\ [][NextReconfigure]_vars

----------------------------------------------------------------------------
(* What the claims are stated with *)

Calls == DOMAIN call

\* the requests a call has issued, in order
Requests(k) == SelectSeq(k.log, LAMBDA x : x.t = "req")

\* t is s without its leading and trailing blanks
IsTrimOf(t, s) ==
    \E i \in 1..(Len(s) + 1), j \in 0..Len(s) :
        /\ j >= i - 1
        /\ t = SubSeq(s, i, j)
        /\ \A n \in 1..(i - 1) : s[n] = " "
        /\ \A n \in (j + 1)..Len(s) : s[n] = " "
        /\ t # <<>> => (t[1] # " " /\ t[Len(t)] # " ")

\* an optional string is set and is not made of blanks only
NonBlank(o) == o # None /\ \E n \in 1..Len(o[1]) : o[1][n] # " "

\* an optional string is set and has at least one character
NonEmpty(o) == o # None /\ Len(o[1]) > 0

\* the mode whose protocol a request belongs to, when voice_id is not set
ProtocolOf(r) ==
    CASE r.endpoint \in {"voices", "preview-from-voice"} -> "AutoSelect"
      [] r.endpoint \in {"ws", "audio_url"} -> "EstablishedSession"
      [] r.endpoint \in {"reference_audio_url", "preview"} -> "AdHocReference"

----------------------------------------------------------------------------
(* C1: whenever the configured voice_id is non-empty after trimming, a call
   that has started has issued exactly one request, the POST to
   /preview-from-voice carrying the trimmed id, whatever session_id,
   reference_audio_url and reference_transcription are: no connection is
   opened, no reference audio is downloaded and /voices is not listed. *)
C1_SavedVoiceFirst ==
    \A c \in Calls :
        (call[c].pc # "start" /\ NonBlank(entity.voice_id)) =>
            LET rs == Requests(call[c])
            IN /\ call[c].mode = "SavedVoice"
               /\ Len(rs) = 1
               /\ rs[1].op = "POST"
               /\ rs[1].endpoint = "preview-from-voice"
               /\ IsTrimOf(rs[1].form.voice_id, entity.voice_id[1])

\* a finished saved-voice call of a record that also sets a session, a
\* reference URL and a transcription, and whose voice_id had to be trimmed
C1_Witness ==
    \E c \in Calls :
        /\ call[c].result = "ok"
        /\ entity.voice_id = Some(<<" ", "a">>)
        /\ NonEmpty(entity.session_id)
        /\ NonEmpty(entity.reference_audio_url)
        /\ entity.reference_transcription # None

(* C2: when voice_id is empty (unset or blank), the mode is the first match
   of: session_id non-empty, EstablishedSession, even with a reference URL
   set; else reference_audio_url non-empty, AdHocReference; else AutoSelect.
   Every record resolves to one mode, and every request of the call belongs
   to that one mode's protocol. *)
C2_FirstMatch ==
    \A c \in Calls :
        (call[c].pc # "start" /\ ~NonBlank(entity.voice_id)) =>
            LET expected ==
                    IF NonEmpty(entity.session_id) THEN "EstablishedSession"
                    ELSE IF NonEmpty(entity.reference_audio_url) THEN "AdHocReference"
                    ELSE "AutoSelect"
                rs == Requests(call[c])
            IN /\ call[c].mode = expected
               /\ \A i \in 1..Len(rs) : ProtocolOf(rs[i]) = expected

\* a session call that went as far as the audio download although a
\* reference URL is set too and voice_id is blank, not unset
C2_Witness ==
    \E c \in Calls :
        /\ call[c].pc = "await_audio"
        /\ entity.voice_id = Some(<<" ">>)
        /\ NonEmpty(entity.session_id)
        /\ NonEmpty(entity.reference_audio_url)

\* the JSON answer lists no voice: no "voices" array, an empty one, or one
\* with no element whose voice_id is a non-empty string
ListsNoVoice(payload) ==
    /\ payload.shape # "invalid"
    /\ \A i \in 1..Len(payload.voices) :
           ~(payload.voices[i].isdict /\ payload.voices[i].ty = "str"
             /\ payload.voices[i].s # <<>>)

\* the two messages of the "no usable voice" failure
NoUsableVoiceMessages ==
    {"No saved voices found on server",
     "Saved voices list did not include a usable voice_id."}

\* position i of the log is the 200 answer to GET /voices
IsVoicesAnswer(k, i) ==
    /\ i > 1
    /\ k.log[i].t = "ev" /\ k.log[i].kind = "response" /\ k.log[i].status = 200
    /\ k.log[i - 1].t = "req" /\ k.log[i - 1].endpoint = "voices"

(* C3: in AutoSelect mode, when the answer of GET /voices lists no voice, the
   call ends there with the "no usable voice" error and has issued no POST
   to /preview-from-voice. *)
C3_NoUsableVoice ==
    \A c \in Calls : \A i \in 1..Len(call[c].log) :
        (IsVoicesAnswer(call[c], i) /\ ListsNoVoice(call[c].log[i].body)) =>
            /\ i = Len(call[c].log)
            /\ call[c].pc = "done"
            /\ call[c].result = "error"
            /\ call[c].exc = "HomeAssistantError"
            /\ call[c].msg \in NoUsableVoiceMessages
            /\ \A j \in 1..Len(call[c].log) :
                   call[c].log[j].t = "req" => call[c].log[j].endpoint # "preview-from-voice"

\* the listing was an array of two elements, none with a voice id
C3_Witness ==
    \E c \in Calls :
        /\ call[c].mode = "AutoSelect"
        /\ call[c].msg = "Saved voices list did not include a usable voice_id."
        /\ Len(call[c].log[2].body.voices) = 2

\* the element's voice_id is a string with at least one character
HasNonEmptyId(item) == item.isdict /\ item.ty = "str" /\ item.s # <<>>

\* the element's voice_id is a string with a character that is no blank
HasNonBlankId(item) ==
    item.isdict /\ item.ty = "str" /\ \E n \in 1..Len(item.s) : item.s[n] # " "

\* position i of the log is the 200 answer to GET /voices and position i + 1
\* the POST to /preview-from-voice made with the voice chosen from it
ChoseVoiceAt(k, i) ==
    /\ IsVoicesAnswer(k, i)
    /\ i < Len(k.log)
    /\ k.log[i + 1].t = "req" /\ k.log[i + 1].endpoint = "preview-from-voice"

(* C4 as stated: the voice id posted after the listing is the voice_id of the
   first element, in the order of the answer, whose voice_id is non-empty. *)
C4_FirstNonEmptyId ==
    \A c \in Calls : \A i \in 1..Len(call[c].log) :
        ChoseVoiceAt(call[c], i) =>
            LET voices == call[c].log[i].body.voices
            IN \E n \in 1..Len(voices) :
                   /\ HasNonEmptyId(voices[n])
                   /\ \A m \in 1..(n - 1) : ~HasNonEmptyId(voices[m])
                   /\ call[c].log[i + 1].form.voice_id = voices[n].s

(* C4, amended: the voice id posted after the listing is the trimmed
   voice_id of the first element, in the order of the answer, whose voice_id
   is a string that is non-empty after trimming; the elements before it,
   blank ids included, are skipped, and no later element is chosen. *)
C4_FirstUsableIdTrimmed ==
    \A c \in Calls : \A i \in 1..Len(call[c].log) :
        ChoseVoiceAt(call[c], i) =>
            LET voices == call[c].log[i].body.voices
            IN \E n \in 1..Len(voices) :
                   /\ HasNonBlankId(voices[n])
                   /\ \A m \in 1..(n - 1) : ~HasNonBlankId(voices[m])
                   /\ IsTrimOf(call[c].log[i + 1].form.voice_id, voices[n].s)

\* the listing was a blank id followed by an id with blanks around it, and
\* the POST was made
C4_Witness ==
    \E c \in Calls :
        /\ Len(call[c].log) = 3
        /\ ChoseVoiceAt(call[c], 2)
        /\ call[c].log[2].body.voices[1].s = <<" ">>
        /\ call[c].log[2].body.voices[2].s = <<" ", "b", " ">>

\* the last thing the call received
LastEvent(k) == k.log[Len(k.log)]

\* the call ended on a CLOSE, CLOSED or ERROR message of the connection
EndedOnClose(k) ==
    /\ k.pc = "done" /\ k.log # <<>>
    /\ LastEvent(k).t = "ev" /\ LastEvent(k).kind = "frame"
    /\ LastEvent(k).body.type \in {"CLOSE", "CLOSED", "ERROR"}

(* C5: in EstablishedSession mode, when the connection closes or reports an
   error before a completion frame, however many frames were skipped before,
   the call fails with a protocol-violation error ("WebSocket closed before
   completion" or "WebSocket error") and never with the timeout error, also
   when a preview timeout is set. *)
C5_CloseIsProtocolViolation ==
    \A c \in Calls :
        EndedOnClose(call[c]) =>
            /\ call[c].mode = "EstablishedSession"
            /\ call[c].result = "error"
            /\ call[c].exc = "HomeAssistantError"
            /\ call[c].msg = IF LastEvent(call[c]).body.type = "ERROR"
                             THEN "WebSocket error"
                             ELSE "WebSocket closed before completion"
            /\ call[c].msg # "Timed out waiting for TTS audio"
            /\ \A j \in 1..Len(call[c].log) : call[c].log[j].t = "req" =>
                   call[c].log[j].endpoint = "ws"

\* the connection closed after two skipped frames, under a positive timeout
C5_Witness ==
    \E c \in Calls :
        /\ EndedOnClose(call[c])
        /\ LastEvent(call[c]).body.type = "CLOSED"
        /\ call[c].nframes = 2
        /\ timeouts.preview > 0

\* a completion frame the loop accepts
IsCompletion(f) ==
    /\ f.type = "TEXT" /\ f.json = "object" /\ f.mtype = "tts_complete"
    /\ f.data = "dict" /\ f.ty = "str" /\ f.audio_url # NoUrl

\* what a request that follows an event must have been preceded by
FollowsSuccess(k, i) ==
    LET ev == k.log[i]
        req == k.log[i + 1]
    IN CASE req.endpoint = "audio_url" ->
              ev.kind = "frame" /\ IsCompletion(ev.body)
         [] req.endpoint = "preview" ->
              /\ ev.kind = "response" /\ ev.status = 200
              /\ i > 1 /\ k.log[i - 1].t = "req"
              /\ k.log[i - 1].endpoint = "reference_audio_url"
         [] req.endpoint = "preview-from-voice" ->
              /\ IsVoicesAnswer(k, i)
              /\ \E n \in 1..Len(ev.body.voices) : HasNonBlankId(ev.body.voices[n])
         [] req.endpoint = "ws" -> req.op = "WS_SEND" /\ ev.kind = "connected"
         [] OTHER -> FALSE

\* an event that is a failure of the phase it ends
IsFailure(ev) ==
    \/ ev.kind \in {"timeout", "transport_error"}
    \/ ev.kind = "response" /\ ev.status # 200
    \/ ev.kind = "frame" /\ ~IsCompletion(ev.body)

(* C6: no failure is retried. A failure event is the last entry of the call's
   log and the call has ended in error with it; a request is either the
   first of the call or directly follows the success of the step before it
   (the audio GET a completion frame, the /preview POST the 200 answer of
   the reference download, the /preview-from-voice POST a listing with a
   usable voice, send_json the opened connection), and no request is made
   twice. *)
C6_NoRetry ==
    \A c \in Calls :
        LET k == call[c]
        IN /\ \A i \in 1..Len(k.log) :
                  (k.log[i].t = "ev" /\ IsFailure(k.log[i])) =>
                      /\ i = Len(k.log)
                      /\ k.pc = "done" /\ k.result = "error"
                      /\ k.status = k.log[i].status
           /\ \A i \in 1..(Len(k.log) - 1) :
                  k.log[i + 1].t = "req" =>
                      k.log[i].t = "ev" /\ FollowsSuccess(k, i)
           /\ \A i, j \in 1..Len(k.log) :
                  (i # j /\ k.log[i].t = "req" /\ k.log[j].t = "req") =>
                      <<k.log[i].op, k.log[i].endpoint>> # <<k.log[j].op, k.log[j].endpoint>>
           /\ k.result = "error" => k.pc = "done"

\* a call that failed at the audio download, after a completion frame
C6_Witness ==
    \E c \in Calls :
        /\ call[c].msg = "Audio download failed"
        /\ Len(call[c].log) = 6
        /\ call[c].log[5].endpoint = "audio_url"

(* C7, for the failures the claim names: a call that fails because a deadline
   elapsed, in whatever phase (voice listing, reference download, audio
   download, preview POST, message exchange), fails with HomeAssistantError,
   the one failure category of every other error. *)
C7_DeadlineFailuresInOneCategory ==
    \A c \in Calls :
        (call[c].result = "error" /\ call[c].log # <<>>
         /\ LastEvent(call[c]).t = "ev" /\ LastEvent(call[c]).kind = "timeout") =>
            call[c].exc = "HomeAssistantError"

\* the request the call made last
LastRequest(k) == Requests(k)[Len(Requests(k))]

\* the timeout value const.py gives the operation the call is in
TimeoutOf(k) ==
    IF LastRequest(k).endpoint \in {"voices", "reference_audio_url", "audio_url"}
    THEN timeouts.download
    ELSE timeouts.preview

\* the call failed on an elapsed deadline
FailedOnDeadline(k) ==
    \/ k.exc = "TimeoutError"
    \/ k.msg = "Timed out waiting for TTS audio"
    \/ k.log # <<>> /\ LastEvent(k).t = "ev" /\ LastEvent(k).kind = "timeout"

(* C8: an operation whose timeout value is zero never fails with a timeout,
   however long the answer takes; a timeout failure occurs only under a
   positive timeout value. *)
C8_ZeroNeverTimesOut ==
    \A c \in Calls :
        /\ call[c].pc \in AwaitPcs => call[c].deadline = TimeoutOf(call[c])
        /\ FailedOnDeadline(call[c]) => TimeoutOf(call[c]) > 0

\* under a zero preview timeout the receive loop is still waiting after
\* twice the time a positive timeout of DOWNLOAD_TIMEOUT_SECONDS allows
C8_Witness ==
    \E c \in Calls :
        /\ call[c].pc = "ws_recv"
        /\ timeouts.preview = 0
        /\ timeouts.download > 0
        /\ Elapsed(call[c]) > DOWNLOAD_TIMEOUT_SECONDS

\* what the call received, in order
Events(k) == SelectSeq(k.log, LAMBDA x : x.t = "ev")

\* a log entry without the text of the request
WithoutText(x) ==
    IF x.t = "req" /\ x.endpoint \in {"preview-from-voice", "preview"}
    THEN [x EXCEPT !.form.response_text = <<>>]
    ELSE IF x.t = "req" /\ x.op = "WS_SEND"
    THEN [x EXCEPT !.form.data.text = <<>>]
    ELSE x

\* the text a request carries is the text of call c
CarriesTextOf(x, c) ==
    IF x.endpoint \in {"preview-from-voice", "preview"}
    THEN x.form.response_text = Message(c)
    ELSE IF x.op = "WS_SEND" THEN x.form.data.text = Message(c)
    ELSE TRUE

\* everything of a call but its own text and clock
Course(k) ==
    [pc |-> k.pc, mode |-> k.mode, result |-> k.result, exc |-> k.exc,
     msg |-> k.msg, status |-> k.status, voice_id |-> k.voice_id,
     log |-> [i \in 1..Len(k.log) |-> WithoutText(k.log[i])]]

(* C9: concurrent calls of one entity do not affect one another. In every
   interleaving of two calls the entity's fields stay as __init__ set them,
   each call's requests carry its own text, and two calls that have received
   the same answers have issued the same requests and reached the same
   outcome: a call's course depends on the configuration and on what it
   received itself, never on the other call. *)
C9_CallsIndependent ==
    /\ entity = EntityInit(entry)
    /\ \A c \in Calls : \A i \in 1..Len(call[c].log) :
           call[c].log[i].t = "req" => CarriesTextOf(call[c].log[i], c)
    /\ \A c, d \in Calls :
           (call[c].pc # "start" /\ call[d].pc # "start"
            /\ Events(call[c]) = Events(call[d])) =>
               Course(call[c]) = Course(call[d])

\* one call has finished its reference-audio protocol while the other,
\* started before it finished, is still waiting for the reference audio
C9_Witness ==
    /\ call[1].pc = "await_reference"
    /\ call[2].result = "ok"
    /\ call[2].mode = "AdHocReference"

\* the log ends with the answer to POST /preview-from-voice
EndsWithSavedVoiceAnswer(k) ==
    /\ Len(k.log) > 1
    /\ LastEvent(k).t = "ev" /\ LastEvent(k).kind = "response"
    /\ k.log[Len(k.log) - 1].t = "req"
    /\ k.log[Len(k.log) - 1].endpoint = "preview-from-voice"

(* C10: the answer to the POST to /preview-from-voice decides the outcome:
   404 gives the error "Saved voice not found", any other status but 200
   gives the different error "Preview-from-voice failed" with the status,
   and 200 gives the audio and no error. *)
C10_NotFoundIsDistinct ==
    \A c \in Calls :
        EndsWithSavedVoiceAnswer(call[c]) =>
            LET status == LastEvent(call[c]).status
            IN /\ status = 404 =>
                      /\ call[c].result = "error"
                      /\ call[c].exc = "HomeAssistantError"
                      /\ call[c].msg = "Saved voice not found"
               /\ status \notin {200, 404} =>
                      /\ call[c].result = "error"
                      /\ call[c].exc = "HomeAssistantError"
                      /\ call[c].msg = "Preview-from-voice failed"
                      /\ call[c].msg # "Saved voice not found"
                      /\ call[c].status = status
               /\ status = 200 =>
                      /\ call[c].result = "ok"
                      /\ call[c].exc = "none" /\ call[c].msg = "none"

\* a saved-voice call answered 404
C10_Witness ==
    \E c \in Calls :
        /\ call[c].mode = "SavedVoice"
        /\ EndsWithSavedVoiceAnswer(call[c])
        /\ LastEvent(call[c]).status = 404
        /\ call[c].msg = "Saved voice not found"

\* position i of the log is a completion frame the loop accepted
IsCompletionAt(k, i) ==
    k.log[i].t = "ev" /\ k.log[i].kind = "frame" /\ IsCompletion(k.log[i].body)

\* t is s without the "/" it starts with
IsWithoutLeadingSlashes(t, s) ==
    \E n \in 0..Len(s) :
        /\ \A m \in 1..n : s[m] = "/"
        /\ t = SubSeq(s, n + 1, Len(s))
        /\ t # <<>> => t[1] # "/"

\* the text begins with http:// or https://
IsAbsoluteHttp(s) ==
    Len(s) >= 2 /\ s[1] \in {"http", "https"} /\ s[2] = "://"

(* C11: after a completion frame the call issues the GET of the audio, and
   its target is the audio_url itself when that starts with http:// or
   https://, and otherwise base_url, a "/" and the audio_url without the "/"
   it starts with: /files/a.wav is downloaded from {base_url}/files/a.wav,
   also when base_url has a path of its own. *)
C11_DownloadTarget ==
    \A c \in Calls : \A i \in 1..Len(call[c].log) :
        IsCompletionAt(call[c], i) =>
            LET audio_url == call[c].log[i].body.audio_url
            IN /\ i < Len(call[c].log)
               /\ call[c].log[i + 1].t = "req"
               /\ call[c].log[i + 1].op = "GET"
               /\ call[c].log[i + 1].endpoint = "audio_url"
               /\ IF IsAbsoluteHttp(audio_url)
                  THEN call[c].log[i + 1].url = audio_url
                  ELSE \E t \in {SubSeq(audio_url, n, Len(audio_url)) :
                                     n \in 1..Len(audio_url)} :
                           /\ IsWithoutLeadingSlashes(t, audio_url)
                           /\ call[c].log[i + 1].url =
                                  UrlText(entity.base_url) \o <<"/">> \o t

\* /files/a.wav was downloaded from a base URL that has a path of its own
C11_Witness ==
    \E c \in Calls :
        /\ call[c].result = "ok"
        /\ call[c].audio_url = <<"/", "files/a.wav">>
        /\ entity.base_url.path # <<>>
        /\ LastRequest(call[c]).url =
               <<"https", "://", "tts.local:8000", "/", "api", "/", "files/a.wav">>

\* the configured reference_transcription, "" when it is not set
ConfiguredTranscription ==
    IF entity.reference_transcription = None THEN <<>>
    ELSE entity.reference_transcription[1]

(* C12: in AdHocReference mode the transcription field of the form posted to
   /preview is the configured reference_transcription without its leading
   and trailing blanks, the empty string when it is unset or blank; and a
   missing transcription does not fail the call: the call goes on to the
   download of the reference audio, and when it fails its last log entry is
   the failed answer, timeout or transport error of a request. *)
C12_TranscriptionRoundTrip ==
    \A c \in Calls :
        (call[c].mode = "AdHocReference" /\ call[c].pc # "start") =>
            LET k == call[c]
            IN /\ k.log # <<>>
               /\ k.log[1].t = "req" /\ k.log[1].endpoint = "reference_audio_url"
               /\ \A i \in 1..Len(k.log) :
                      (k.log[i].t = "req" /\ k.log[i].endpoint = "preview") =>
                          IsTrimOf(k.log[i].form.transcription, ConfiguredTranscription)
               /\ k.result = "error" =>
                      LastEvent(k).t = "ev" /\ IsFailure(LastEvent(k))

\* a call with a blank transcription posted the empty string and got its audio
C12_Witness ==
    \E c \in Calls :
        /\ call[c].mode = "AdHocReference"
        /\ call[c].result = "ok"
        /\ entity.reference_transcription = Some(<<" ">>)
        /\ call[c].log[3].endpoint = "preview"
        /\ call[c].log[3].form.transcription = <<>>

\* the call ended on a frame of the receive loop
EndedOnFrame(k) ==
    /\ k.pc = "done" /\ k.log # <<>>
    /\ LastEvent(k).t = "ev" /\ LastEvent(k).kind = "frame"

\* a frame that is neither a completion frame, nor an error frame, nor a
\* close or error of the connection: a text frame that is malformed JSON, or
\* JSON that is no object, or an object of unknown type, and a frame that is
\* not text and of no kind the loop names
IsUnrecognized(f) ==
    IF f.type = "TEXT"
    THEN \/ f.json \in {"malformed", "nonobject"}
         \/ f.json = "object" /\ f.mtype \notin {"tts_complete", "error"}
    ELSE f.type \notin {"CLOSE", "CLOSED", "ERROR"}

(* C13: in the receive loop a frame that is neither a completion frame, nor
   an error frame, nor a close or error of the connection never ends the
   call: no call has ended on a text frame that is malformed JSON or JSON of
   an unrecognized shape (unknown type, or a value that is no object), nor on
   a non-text frame of unrecognized kind. *)
C13_UnrecognizedFramesNeverEnd ==
    \A c \in Calls :
        EndedOnFrame(call[c]) => ~IsUnrecognized(LastEvent(call[c]).body)

\* the frames the call has on its log
FrameEvents(k) == SelectSeq(k.log, LAMBDA x : x.t = "ev" /\ x.kind = "frame")

\* the call has asked for the audio of a completion
AskedForAudio(k) ==
    \E i \in 1..Len(k.log) : k.log[i].t = "req" /\ k.log[i].endpoint = "audio_url"

\* the state of the receive loop of a call: NONE before the loop is entered
\* and in the other modes, AWAITING while it reads, DONE when it returned a
\* completion, FAILED when it raised
LoopState(k) ==
    IF k.mode # "EstablishedSession" \/ k.pc \in {"start", "ws_connect"}
       \/ \A i \in 1..Len(k.log) : ~(k.log[i].t = "req" /\ k.log[i].op = "WS_SEND")
    THEN "NONE"
    ELSE IF k.pc = "ws_recv" THEN "AWAITING"
    ELSE IF AskedForAudio(k) THEN "DONE"
    ELSE "FAILED"

\* a terminal event of the frame sequence: a completion frame, an error
\* frame, a close or a connection error
IsTerminalEvent(f) ==
    \/ f.type = "TEXT" /\ f.json = "object" /\ f.mtype \in {"tts_complete", "error"}
    \/ f.type \in {"CLOSE", "CLOSED", "ERROR"}

(* C14: the receive loop goes from AWAITING to DONE or FAILED on the first
   terminal event of the frame sequence and on nothing else: a loop that is
   DONE or FAILED has read exactly one terminal event, its last frame; it is
   DONE when that is a completion frame and FAILED when it is an error
   frame, a close or a connection error; and no terminal event follows
   another on the log, so that no later frame changes the outcome. *)
C14_FirstTerminalEventDecides ==
    \A c \in Calls :
        LET k == call[c]
            fs == FrameEvents(k)
        IN /\ Len(fs) <= 1
           /\ LoopState(k) = "AWAITING" => fs = <<>>
           /\ (LoopState(k) \in {"DONE", "FAILED"}
               /\ k.msg # "Timed out waiting for TTS audio") =>
                  /\ Len(fs) = 1
                  /\ IsTerminalEvent(fs[1].body)
                  /\ IsCompletion(fs[1].body) => LoopState(k) = "DONE"
                  /\ ~IsCompletion(fs[1].body) =>
                         /\ LoopState(k) = "FAILED"
                         /\ k.pc = "done" /\ k.result = "error"

\* a frame of type tts_complete that carries no audio_url the loop accepts:
\* data.audio_url is missing (data itself missing, empty or no object
\* included), empty, or not a string
IsCompletionWithoutUrl(f) ==
    /\ f.type = "TEXT" /\ f.json = "object" /\ f.mtype = "tts_complete"
    /\ (f.data # "dict" \/ f.ty # "str" \/ f.audio_url = <<>>)

(* C15: a frame of type tts_complete whose data.audio_url is missing, empty
   or not a string fails the call at once with the protocol-violation error
   "tts_complete missing audio_url": the call has ended on that frame, in
   error, without asking for any audio, so that no later frame is used. *)
C15_CompletionWithoutUrlFails ==
    \A c \in Calls : \A i \in 1..Len(call[c].log) :
        (call[c].log[i].t = "ev" /\ call[c].log[i].kind = "frame"
         /\ IsCompletionWithoutUrl(call[c].log[i].body)) =>
            /\ i = Len(call[c].log)
            /\ call[c].pc = "done" /\ call[c].result = "error"
            /\ call[c].exc = "HomeAssistantError"
            /\ call[c].msg = "tts_complete missing audio_url"
            /\ ~AskedForAudio(call[c])

(* C16: when base_url has a scheme other than http or https, a call fails
   with the configuration error "Invalid base URL scheme" before any network
   call, whatever its mode: once started it has ended in that error and has
   issued no request. *)
C16_InvalidSchemeFailsInEveryMode ==
    \A c \in Calls :
        (entity.base_url.scheme \notin {"http", "https"} /\ call[c].pc # "start") =>
            /\ call[c].mode \in {"SavedVoice", "AutoSelect", "AdHocReference",
                                 "EstablishedSession"}
            /\ call[c].pc = "done" /\ call[c].result = "error"
            /\ call[c].exc = "HomeAssistantError"
            /\ call[c].msg = "Invalid base URL scheme"
            /\ call[c].log = <<>>

\* the call is in the connect + send + receive-loop sequence
InExchange(k) == k.mode = "EstablishedSession" /\ k.pc \in WsAwaitPcs

\* the call failed with the "timed out" error
TimedOutError(k) ==
    /\ k.pc = "done" /\ k.result = "error"
    /\ k.exc = "HomeAssistantError"
    /\ k.msg = "Timed out waiting for TTS audio"

(* C17: with a positive preview timeout one deadline covers the whole connect
   + send + receive-loop sequence of an EstablishedSession call. The
   deadline of the sequence is the preview timeout from ws_connect on; within
   the sequence no step, the read of a frame included, sets the deadline
   anew or turns the clock back; the sequence always ends, also when the
   server sends ignorable frames for ever; and a call whose deadline passes
   while it is still in the sequence fails with the "timed out" error. *)
C17_OneDeadlineCoversExchange ==
    /\ []((InExchange(call[1]) /\ timeouts.preview > 0) =>
             /\ call[1].deadline = timeouts.preview
             /\ Elapsed(call[1]) <= call[1].deadline)
    /\ [][(InExchange(call[1]) /\ InExchange(call'[1])) =>
             /\ call'[1].deadline = call[1].deadline
             /\ call'[1].ticks >= call[1].ticks]_vars
    /\ ((InExchange(call[1]) /\ timeouts.preview > 0) ~> ~InExchange(call[1]))
    /\ ((InExchange(call[1]) /\ DeadlinePassed(call[1])) ~> TimedOutError(call[1]))

\* the call timed out in the receive loop after two clock ticks, having
\* skipped as many frames as the model counts
C17_Witness ==
    /\ TimedOutError(call[1])
    /\ timeouts.preview = 2 * TickSeconds
    /\ call[1].ticks = 2
    /\ call[1].nframes = MaxFrames
    /\ Len(call[1].log) = 4

\* the mode the configuration record gives, by the order of the resolver
ModeOfRecord(e) ==
    IF NonBlank(e.voice_id) THEN "SavedVoice"
    ELSE IF NonEmpty(e.session_id) THEN "EstablishedSession"
    ELSE IF NonEmpty(e.reference_audio_url) THEN "AdHocReference"
    ELSE "AutoSelect"

(* C18: the mode is resolved anew on every call and never cached: a call
   that starts takes the mode that the configuration record gives at that
   moment, also when the record's session_id was changed after the entity
   was built. *)
C18_ModeFollowsRecord ==
    [][\A c \in {1, 2} :
          (call[c].pc = "start" /\ call'[c].pc # "start") =>
              call'[c].mode = ModeOfRecord(entry)]_vars

\* the positions of the log at which the call sent a message on the connection
SendsAt(k) == {i \in 1..Len(k.log) : k.log[i].t = "req" /\ k.log[i].op = "WS_SEND"}

\* the connection of the call has been opened
ConnectionOpen(k) ==
    \E i \in 1..Len(k.log) : k.log[i].t = "ev" /\ k.log[i].kind = "connected"

(* C19: in an EstablishedSession call no message is sent before the
   connection is open, and once it is open exactly one message has been
   sent, whatever happens later in the call: it is of type generate_preview
   and carries the configured session_id and the text of the request, it
   directly follows the opening of the connection, and every frame the call
   has read comes after it. *)
C19_OneGeneratePreviewMessage ==
    \A c \in Calls :
        (call[c].mode = "EstablishedSession") =>
            LET k == call[c]
            IN /\ ~ConnectionOpen(k) =>
                      SendsAt(k) = {} /\ k.nframes = 0 /\ FrameEvents(k) = <<>>
               /\ ConnectionOpen(k) =>
                      /\ SendsAt(k) = {3}
                      /\ k.log[1].op = "WS_CONNECT"
                      /\ k.log[2].t = "ev" /\ k.log[2].kind = "connected"
                      /\ k.log[3].form.type = "generate_preview"
                      /\ Some(k.log[3].form.data.session_id) = entity.session_id
                      /\ k.log[3].form.data.text = Message(c)
                      /\ DOMAIN k.log[3].form.data = {"session_id", "text"}
                      /\ \A i \in 1..Len(k.log) :
                             (k.log[i].t = "ev" /\ k.log[i].kind = "frame") => i > 3

\* a call with a blank session_id sent its one message, skipped two frames,
\* got a completion and its audio
C19_Witness ==
    \E c \in Calls :
        /\ call[c].result = "ok"
        /\ call[c].mode = "EstablishedSession"
        /\ entity.session_id = Some(<<" ">>)
        /\ call[c].nframes = 2
        /\ SendsAt(call[c]) = {3}

\* the text is non-empty and neither starts nor ends with a blank
IsTrimmedNonEmpty(s) == s # <<>> /\ s[1] # " " /\ s[Len(s)] # " "

(* C20: every POST to /preview-from-voice, whether the call is in SavedVoice
   mode or came to it from the listing of AutoSelect, carries a voice_id that
   is non-empty and has no leading or trailing blank; no call posts an empty
   or blank voice_id. *)
C20_PostedVoiceIdIsTrimmed ==
    \A c \in Calls : \A i \in 1..Len(call[c].log) :
        (call[c].log[i].t = "req" /\ call[c].log[i].endpoint = "preview-from-voice") =>
            /\ call[c].mode \in {"SavedVoice", "AutoSelect"}
            /\ call[c].log[i].op = "POST"
            /\ IsTrimmedNonEmpty(call[c].log[i].form.voice_id)

\* an AutoSelect call whose listing held a blank id and then an id with
\* blanks around it has posted the bare id and got its audio
C20_Witness ==
    \E c \in Calls :
        /\ call[c].mode = "AutoSelect"
        /\ call[c].result = "ok"
        /\ call[c].log[2].body.voices =
               <<[isdict |-> TRUE, ty |-> "str", s |-> <<" ">>],
                 [isdict |-> TRUE, ty |-> "str", s |-> <<" ", "b", " ">>]>>
        /\ call[c].log[3].form.voice_id = <<"b">>

====
